---- MODULE Spec2Model ----
(***************************************************************************)
(* A model of the smart-student-assistant retrieval pipeline               *)
(* (src/rag_utils.py) and of the Streamlit script that drives it           *)
(* (src/app.py).                                                           *)
(*                                                                         *)
(* Strings are sequences of one-character strings.  Every subsystem has    *)
(* its own variables and its own specification (SpecChunker, SpecSearch,   *)
(* SpecSummary, SpecQuiz, SpecPlan, SpecApp); a specification leaves the   *)
(* variables of the other subsystems at their idle values.                 *)
(***************************************************************************)
EXTENDS Integers, Sequences, FiniteSets, TLC

VARIABLES
    \* split_into_chunks: arguments, locals and position of one call
    text, chunk_size, overlap, words, chunks, start, spans, pc,
    \* TfidfStore.similarity_search: the store's chunks (the vocabulary terms
    \* of each), the arguments, the locals and the position of one call
    store_chunks, query, k, sims, idxs, result, search_pc,
    \* summarize_lecture: store.raw_text, the argument, the locals, the result
    raw_text, detail, base, bullets, summary_pc,
    \* generate_quiz: store.raw_text, the arguments, the locals, the result
    quiz_text, num_questions, difficulty, keywords, quiz, quiz_pc,
    \* generate_study_plan: store.chunks, the arguments, the clock, the
    \* locals, the lines of the result
    plan_chunks, exam_date, hours_per_day, weak_topics, today,
    exam, days_left, per_day, idx, day, plan_lines, plan_pc,
    \* app.py: st.session_state, the GEMINI_API_KEY of the environment, and a
    \* record of the last script run
    session, default_api_key, run

chunkerVars == <<text, chunk_size, overlap, words, chunks, start, spans, pc>>

searchVars == <<store_chunks, query, k, sims, idxs, result, search_pc>>

summaryVars == <<raw_text, detail, base, bullets, summary_pc>>

quizVars == <<quiz_text, num_questions, difficulty, keywords, quiz, quiz_pc>>

planVars == <<plan_chunks, exam_date, hours_per_day, weak_topics, today,
              exam, days_left, per_day, idx, day, plan_lines, plan_pc>>

appVars == <<session, default_api_key, run>>

vars == <<chunkerVars, searchVars, summaryVars, quizVars, planVars, appVars>>

----------------------------------------------------------------------------
(* Bounds of the model *)

MaxTextLen == 7
MaxChunkSize == 3
MaxOverlap == 3
MaxStoreChunks == 3
MaxScore == 2
MaxRuns == 5
MaxQuizWords == 3
MaxQuestions == 3
MaxPlanChunks == 4
MaxDays == 3
MaxUploadLen == 2

\* the defaults of split_into_chunks
DefaultChunkSize == 800
DefaultOverlap == 200

----------------------------------------------------------------------------
(* Python helpers *)

Min(a, b) == IF a < b THEN a ELSE b
Max(a, b) == IF a > b THEN a ELSE b

\* str.isspace for the characters of the model
IsSpace(c) == c \in {" ", "\n"}

\* s[lo:hi] of Python for a sequence s: negative indices count from the end
\* and both are clamped to 0..len(s).
PySlice(s, lo, hi) ==
    LET n == Len(s)
        l == IF lo < 0 THEN Max(lo + n, 0) ELSE Min(lo, n)
        h == IF hi < 0 THEN Max(hi + n, 0) ELSE Min(hi, n)
    IN  SubSeq(s, l + 1, h)

\* text.split(): the maximal runs of non-whitespace characters, in order
RECURSIVE SplitFrom(_, _, _, _)
SplitFrom(t, i, cur, acc) ==
    IF i > Len(t)
    THEN IF cur = <<>> THEN acc ELSE Append(acc, cur)
    ELSE IF IsSpace(t[i])
         THEN SplitFrom(t, i + 1, <<>>, IF cur = <<>> THEN acc ELSE Append(acc, cur))
         ELSE SplitFrom(t, i + 1, Append(cur, t[i]), acc)

Split(t) == SplitFrom(t, 1, <<>>, <<>>)

\* " ".join(ws)
RECURSIVE Join(_)
Join(ws) ==
    IF ws = <<>> THEN <<>>
    ELSE IF Len(ws) = 1 THEN ws[1]
    ELSE ws[1] \o <<" ">> \o Join(Tail(ws))

----------------------------------------------------------------------------
(* split_into_chunks, one loop iteration per step *)

\* a window one word short
WindowEndShort(s, cs, n) == Min(s + cs - 1, n)

\* end = min(start + chunk_size, n)
WindowEnd(s, cs, n) == Min(s + cs, n)

\* a start that skips one word past the overlap
NextStartSkip(end, ov) == Max(0, end - ov + 1)

\* start = max(0, end - overlap)
NextStart(end, ov) == Max(0, end - ov)

ChunkerAlphabet == {"a", "b", " "}

ChunkerTexts == UNION {[1..len -> ChunkerAlphabet] : len \in 0..MaxTextLen}

IdleChunker ==
    /\ text = <<>> /\ chunk_size = 0 /\ overlap = 0 /\ words = <<>>
    /\ chunks = <<>> /\ start = 0 /\ spans = <<>> /\ pc = "idle"

IdleSearch ==
    /\ store_chunks = <<>> /\ query = {} /\ k = 0 /\ sims = <<>>
    /\ idxs = <<>> /\ result = <<>> /\ search_pc = "idle"

IdleSummary ==
    /\ raw_text = <<>> /\ detail = "" /\ base = <<>> /\ bullets = <<>>
    /\ summary_pc = "idle"

NoQuiz == [kind |-> "none", label |-> "", questions |-> <<>>]

IdleQuiz ==
    /\ quiz_text = <<>> /\ num_questions = 0 /\ difficulty = ""
    /\ keywords = <<>> /\ quiz = NoQuiz /\ quiz_pc = "idle"

IdlePlan ==
    /\ plan_chunks = <<>> /\ exam_date = [parses |-> FALSE, ordinal |-> 0]
    /\ hours_per_day = 0 /\ weak_topics = "" /\ today = 0 /\ exam = 0
    /\ days_left = 0 /\ per_day = 0 /\ idx = 0 /\ day = 0
    /\ plan_lines = <<>> /\ plan_pc = "idle"

NoRun ==
    [button |-> "", api_key |-> <<>>, stopped |-> "", ingestion |-> "",
     raised |-> "", index_built |-> FALSE, upload |-> <<>>, derived |-> ""]

IdleApp == session = {} /\ default_api_key = <<>> /\ run = NoRun

InitChunker ==
    /\ IdleSearch /\ IdleSummary /\ IdleQuiz /\ IdlePlan /\ IdleApp
    /\ text \in ChunkerTexts
    /\ chunk_size \in -1..MaxChunkSize
    /\ overlap \in -1..MaxOverlap
    /\ words = <<>>
    /\ chunks = <<>>
    /\ start = 0
    /\ spans = <<>>
    /\ pc = "entry"

\* words = text.split(); if not words: return []; chunks = []; start = 0
ChunkerEnter ==
    /\ pc = "entry"
    /\ words' = Split(text)
    /\ chunks' = <<>>
    /\ start' = 0
    /\ spans' = <<>>
    /\ pc' = IF words' = <<>> THEN "done" ELSE "loop"
    /\ UNCHANGED <<text, chunk_size, overlap>>
    /\ UNCHANGED <<searchVars, summaryVars, quizVars, planVars, appVars>>

\* while start < n: one iteration of the body; the loop test failing returns.
\* A call that makes no progress appends a chunk per iteration for ever: the
\* model follows it until it holds more chunks than the text has words.
ChunkerLoop ==
    /\ pc = "loop"
    /\ Len(chunks) <= Len(words)
    /\ LET n == Len(words)
           end == WindowEnd(start, chunk_size, n)
       IN  IF start < n
           THEN /\ chunks' = Append(chunks, Join(PySlice(words, start, end)))
                /\ spans' = Append(spans, <<start, end>>)
                /\ IF end = n
                   THEN pc' = "done" /\ start' = start
                   ELSE pc' = "loop" /\ start' = NextStart(end, overlap)
           ELSE /\ pc' = "done"
                /\ UNCHANGED <<chunks, spans, start>>
    /\ UNCHANGED <<text, chunk_size, overlap, words>>
    /\ UNCHANGED <<searchVars, summaryVars, quizVars, planVars, appVars>>

NextChunker == ChunkerEnter \/ ChunkerLoop

SpecChunker == InitChunker /\ [][NextChunker]_vars

----------------------------------------------------------------------------
(* TfidfStore.similarity_search *)

\* The terms of the fitted vocabulary, and a query term the corpus lacks
Terms == {"t1", "t2"}
QueryTerms == Terms \cup {"unseen"}

\* The score vectors cosine_similarity can return for a query: one score per
\* chunk, on a scale 0..MaxScore.  TF-IDF weights are positive for every term
\* of a chunk, so a score is 0 exactly when the chunk and the query share no
\* vocabulary term.
CosineOutcomes(cs, q) ==
    {v \in [1..Len(cs) -> 0..MaxScore] :
        \A i \in 1..Len(cs) : (v[i] = 0) <=> (cs[i] \cap q = {})}

\* np.argsort(-sims): the default kind is quicksort, which is not stable; any
\* permutation that puts the scores in non-increasing order can come out.
ArgsortOutcomes(v) ==
    {p \in [1..Len(v) -> 1..Len(v)] :
        /\ \A i, j \in 1..Len(v) : i # j => p[i] # p[j]
        /\ \A i, j \in 1..Len(v) : i < j => v[p[i]] >= v[p[j]]}

\* the stores a session can hold: at least one chunk, a non-empty vocabulary
SearchStores ==
    {c \in UNION {[1..m -> SUBSET Terms] : m \in 1..MaxStoreChunks} :
        \E i \in 1..Len(c) : c[i] # {}}

InitSearch ==
    /\ IdleChunker /\ IdleSummary /\ IdleQuiz /\ IdlePlan /\ IdleApp
    /\ store_chunks \in SearchStores
    /\ query = {} /\ k = 0 /\ sims = <<>> /\ idxs = <<>> /\ result = <<>>
    /\ search_pc = "call"

\* q_vec = vectorizer.transform([query]); sims = cosine_similarity(...)[0]
SearchScore ==
    /\ search_pc = "call"
    /\ query' \in SUBSET QueryTerms
    /\ k' \in -1..(MaxStoreChunks + 1)
    /\ sims' \in CosineOutcomes(store_chunks, query')
    /\ search_pc' = "scored"
    /\ UNCHANGED <<store_chunks, idxs, result>>
    /\ UNCHANGED <<chunkerVars, summaryVars, quizVars, planVars, appVars>>

\* idxs = np.argsort(-sims)[:k]; return [(chunks[i], sims[i]) for i in idxs]
SearchRank ==
    /\ search_pc = "scored"
    /\ \E p \in ArgsortOutcomes(sims) :
          /\ idxs' = PySlice(p, 0, k)
          /\ result' = [j \in 1..Len(idxs') |->
                          [index |-> idxs'[j],
                           chunk |-> store_chunks[idxs'[j]],
                           score |-> sims[idxs'[j]]]]
    /\ search_pc' = "done"
    /\ UNCHANGED <<store_chunks, query, k, sims>>
    /\ UNCHANGED <<chunkerVars, summaryVars, quizVars, planVars, appVars>>

NextSearch == SearchScore \/ SearchRank

SpecSearch == InitSearch /\ [][NextSearch]_vars

----------------------------------------------------------------------------
(* Sentence handling: _first_sentences and summarize_lecture.               *)
(* A text is run-length encoded: a sequence of runs <<kind, n>>, n >= 1     *)
(* characters of one kind: "w" an ordinary character, "." a sentence        *)
(* terminal (one of . ! ?), " " whitespace.                                 *)

RunKind(r) == r[1]
RunLen(r) == r[2]

\* len(s)
RECURSIVE TextLen(_)
TextLen(t) == IF t = <<>> THEN 0 ELSE RunLen(Head(t)) + TextLen(Tail(t))

\* s.strip()
RECURSIVE LStrip(_)
LStrip(t) ==
    IF t # <<>> /\ RunKind(Head(t)) = " " THEN LStrip(Tail(t)) ELSE t

RECURSIVE RStrip(_)
RStrip(t) ==
    IF t # <<>> /\ RunKind(t[Len(t)]) = " "
    THEN RStrip(SubSeq(t, 1, Len(t) - 1)) ELSE t

Strip(t) == RStrip(LStrip(t))

\* re.split(r"(?<=[.!?])\s+", t): a separator is a maximal stretch of
\* whitespace that directly follows a sentence terminal.  The pieces include
\* the empty piece after a separator that ends the text.
RECURSIVE SentenceSplitFrom(_, _, _, _)
SentenceSplitFrom(t, i, cur, acc) ==
    IF i > Len(t) THEN Append(acc, cur)
    ELSE IF RunKind(t[i]) = " " /\ i > 1 /\ RunKind(t[i - 1]) = "."
         THEN SentenceSplitFrom(LStrip(SubSeq(t, i, Len(t))), 1, <<>>, Append(acc, cur))
         ELSE SentenceSplitFrom(t, i + 1, Append(cur, t[i]), acc)

SentenceSplit(t) == SentenceSplitFrom(t, 1, <<>>, <<>>)

\* " ".join(out) for texts
RECURSIVE JoinTexts(_)
JoinTexts(ts) ==
    IF ts = <<>> THEN <<>>
    ELSE IF Len(ts) = 1 THEN ts[1]
    ELSE ts[1] \o <<<<" ", 1>>>> \o JoinTexts(Tail(ts))

\* the loop of _first_sentences: skip empty pieces, stop at the first
\* sentence that passes the budget unless nothing was taken yet
RECURSIVE TakeSentences(_, _, _, _)
TakeSentences(ss, max_chars, out, total) ==
    IF ss = <<>> THEN out
    ELSE IF Head(ss) = <<>> THEN TakeSentences(Tail(ss), max_chars, out, total)
    ELSE IF total + TextLen(Head(ss)) > max_chars /\ out # <<>> THEN out
    ELSE TakeSentences(Tail(ss), max_chars, Append(out, Head(ss)),
                       total + TextLen(Head(ss)))

FirstSentenceList(t, max_chars) ==
    TakeSentences(SentenceSplit(Strip(t)), max_chars, <<>>, 0)

\* _first_sentences(text, max_chars)
FirstSentences(t, max_chars) == JoinTexts(FirstSentenceList(t, max_chars))

\* the budget table of summarize_lecture, .get(detail, 1500)
Budget(d) ==
    CASE d = "short" -> 800
      [] d = "medium" -> 1500
      [] d = "long" -> 2500
      [] OTHER -> 1500

\* [b.strip() for b in bullets if b.strip()]
RECURSIVE StripNonEmpty(_)
StripNonEmpty(ts) ==
    IF ts = <<>> THEN <<>>
    ELSE IF Strip(Head(ts)) = <<>> THEN StripNonEmpty(Tail(ts))
    ELSE <<Strip(Head(ts))>> \o StripNonEmpty(Tail(ts))

RunPool == {<<"w", 399>>, <<"w", 800>>, <<".", 1>>, <<" ", 1>>}

\* the raw texts of a store: at least one word
SummaryTexts ==
    {t \in UNION {[1..len -> RunPool] : len \in 1..MaxRuns} :
        \E i \in 1..Len(t) : RunKind(t[i]) = "w"}

InitSummary ==
    /\ IdleChunker /\ IdleSearch /\ IdleQuiz /\ IdlePlan /\ IdleApp
    /\ raw_text \in SummaryTexts
    /\ detail \in {"short", "medium", "long", "full"}
    /\ base = <<>> /\ bullets = <<>>
    /\ summary_pc = "call"

\* base = _first_sentences(store.raw_text, max_chars=...)
SummarizeBase ==
    /\ summary_pc = "call"
    /\ base' = FirstSentences(raw_text, Budget(detail))
    /\ summary_pc' = "split"
    /\ UNCHANGED <<raw_text, detail, bullets>>
    /\ UNCHANGED <<chunkerVars, searchVars, quizVars, planVars, appVars>>

\* bullets = re.split(...); bullets = [b.strip() ...]; return the "- b" lines
SummarizeBullets ==
    /\ summary_pc = "split"
    /\ bullets' = StripNonEmpty(SentenceSplit(base))
    /\ summary_pc' = "done"
    /\ UNCHANGED <<raw_text, detail, base>>
    /\ UNCHANGED <<chunkerVars, searchVars, quizVars, planVars, appVars>>

NextSummary == SummarizeBase \/ SummarizeBullets

SpecSummary == InitSummary /\ [][NextSummary]_vars

----------------------------------------------------------------------------
(* _extract_keywords and generate_quiz *)

UpperToLower == [c \in {"D", "T"} |-> IF c = "D" THEN "d" ELSE "t"]

\* str.lower(), character by character
LowerChar(c) == IF c \in DOMAIN UpperToLower THEN UpperToLower[c] ELSE c
Lower(t) == [i \in 1..Len(t) |-> LowerChar(t[i])]

\* [A-Za-z]
IsAlpha(c) ==
    c \in {"a", "b", "c", "d", "e", "h", "i", "n", "o", "r", "s", "t", "D", "T"}

\* re.findall(r"[A-Za-z]{4,}", t): the maximal runs of letters that are at
\* least four letters long, in order
RECURSIVE FindAlphaRunsFrom(_, _, _, _)
FindAlphaRunsFrom(t, i, cur, acc) ==
    LET closed == IF Len(cur) >= 4 THEN Append(acc, cur) ELSE acc
    IN  IF i > Len(t) THEN closed
        ELSE IF IsAlpha(t[i])
             THEN FindAlphaRunsFrom(t, i + 1, Append(cur, t[i]), acc)
             ELSE FindAlphaRunsFrom(t, i + 1, <<>>, closed)

FindAlphaRuns(t) == FindAlphaRunsFrom(t, 1, <<>>, <<>>)

\* Counter(tokens): its keys in the order they were first counted
RECURSIVE DistinctInOrder(_)
DistinctInOrder(ts) ==
    IF ts = <<>> THEN <<>>
    ELSE LET rest == DistinctInOrder(SubSeq(ts, 1, Len(ts) - 1))
             last == ts[Len(ts)]
         IN  IF \E i \in 1..Len(rest) : rest[i] = last
             THEN rest ELSE Append(rest, last)

CountOf(ts, w) == Cardinality({i \in 1..Len(ts) : ts[i] = w})

\* a stable insertion by descending count: after every key counted at least
\* as often
RECURSIVE InsertByCount(_, _, _)
InsertByCount(sorted, w, ts) ==
    IF sorted = <<>> THEN <<w>>
    ELSE IF CountOf(ts, Head(sorted)) >= CountOf(ts, w)
         THEN <<Head(sorted)>> \o InsertByCount(Tail(sorted), w, ts)
         ELSE <<w>> \o sorted

RECURSIVE SortByCount(_, _)
SortByCount(keys, ts) ==
    IF keys = <<>> THEN <<>>
    ELSE InsertByCount(SortByCount(SubSeq(keys, 1, Len(keys) - 1), ts),
                       keys[Len(keys)], ts)

\* the keys in the order of first appearance, not sorted by count
MostCommonUnsorted(ts) == DistinctInOrder(ts)

\* [w for w, _ in counts.most_common()]: by descending count, equal counts
\* in the order first counted
MostCommon(ts) == SortByCount(DistinctInOrder(ts), ts)

W_this == <<"t", "h", "i", "s">>
W_that == <<"t", "h", "a", "t">>

\* the stop set of _extract_keywords
KeywordStop ==
    { W_this, W_that,
      <<"t", "h", "e", "s", "e">>, <<"t", "h", "o", "s", "e">>,
      <<"h", "a", "v", "e">>, <<"b", "e", "e", "n">>,
      <<"w", "h", "i", "c", "h">>, <<"t", "h", "e", "r", "e">>,
      <<"w", "h", "e", "r", "e">>, <<"f", "r", "o", "m">>,
      <<"w", "i", "t", "h">>, <<"a", "b", "o", "u", "t">>,
      <<"o", "t", "h", "e", "r">>,
      <<"b", "e", "c", "a", "u", "s", "e">> }

RECURSIVE DropStop(_)
DropStop(ws) ==
    IF ws = <<>> THEN <<>>
    ELSE IF Head(ws) \in KeywordStop THEN DropStop(Tail(ws))
    ELSE <<Head(ws)>> \o DropStop(Tail(ws))

\* _extract_keywords(text, max_words)
ExtractKeywords(t, max_words) ==
    LET tokens == FindAlphaRuns(Lower(t))
    IN  IF tokens = <<>> THEN <<>>
        ELSE PySlice(DropStop(MostCommon(tokens)), 0, max_words)

\* TfidfVectorizer(stop_words="english").fit_transform on a text of letters
\* and whitespace: the vocabulary is the lowercased words of two or more
\* characters that are not English stop words; fitting an empty vocabulary
\* raises ValueError, so no store exists for such a text.  Of the English
\* stop list only the words the model's texts can spell are listed.
EnglishStop == {W_this, W_that}

TfidfVocabulary(t) ==
    LET ws == Split(t)
    IN  {Lower(ws[i]) : i \in {j \in 1..Len(ws) : Len(ws[j]) >= 2}} \ EnglishStop

QuizWordPool ==
    { <<"d", "a", "t", "a">>, <<"D", "a", "t", "a">>, W_this,
      <<"T", "r", "e", "e">>, <<"c", "a", "t">> }

\* the raw texts of a store: words separated by single spaces, with a
\* non-empty TF-IDF vocabulary
QuizTexts ==
    {Join(ws) : ws \in
        {v \in UNION {[1..len -> QuizWordPool] : len \in 1..MaxQuizWords} :
            TfidfVocabulary(Join(v)) # {}}}

InitQuiz ==
    /\ IdleChunker /\ IdleSearch /\ IdleSummary /\ IdlePlan /\ IdleApp
    /\ quiz_text \in QuizTexts
    /\ num_questions \in 0..MaxQuestions
    /\ difficulty \in {"easy", "medium", "hard"}
    /\ keywords = <<>> /\ quiz = NoQuiz
    /\ quiz_pc = "call"

\* keywords = _extract_keywords(store.raw_text, max_words=max(n * 2, 10));
\* if not keywords: return "Could not generate a quiz ..."
QuizKeywords ==
    /\ quiz_pc = "call"
    /\ keywords' = ExtractKeywords(quiz_text, Max(num_questions * 2, 10))
    /\ IF keywords' = <<>>
       THEN /\ quiz' = [kind |-> "no_keywords", label |-> "", questions |-> <<>>]
            /\ quiz_pc' = "done"
       ELSE /\ quiz' = quiz
            /\ quiz_pc' = "questions"
    /\ UNCHANGED <<quiz_text, num_questions, difficulty>>
    /\ UNCHANGED <<chunkerVars, searchVars, summaryVars, planVars, appVars>>

\* for i in range(num_questions): kw = keywords[i] or "concept #{i+1}";
\* return header (difficulty) + numbered questions + footer
QuizQuestions ==
    /\ quiz_pc = "questions"
    /\ quiz' = [kind |-> "quiz",
                label |-> difficulty,
                questions |->
                  [n \in 1..num_questions |->
                     IF n - 1 < Len(keywords)
                     THEN [num |-> n, placeholder |-> 0, word |-> keywords[n]]
                     ELSE [num |-> n, placeholder |-> n, word |-> <<>>]]]
    /\ quiz_pc' = "done"
    /\ UNCHANGED <<quiz_text, num_questions, difficulty, keywords>>
    /\ UNCHANGED <<chunkerVars, searchVars, summaryVars, planVars, appVars>>

NextQuiz == QuizKeywords \/ QuizQuestions

SpecQuiz == InitQuiz /\ [][NextQuiz]_vars

----------------------------------------------------------------------------
(* generate_study_plan.  A date is its ordinal (a day number); exam_date is *)
(* the string argument: whether datetime.fromisoformat accepts it and, if   *)
(* so, the date it denotes.                                                 *)

Line(kind, num, body) == [kind |-> kind, num |-> num, body |-> body]

\* a share that rounds up, so that every chunk is scheduled
PerDayBalanced(m, d) == Max((m + d - 1) \div d, 1)

\* per_day = max(len(chunks) // days_left, 1)
PerDay(m, d) == Max(m \div d, 1)

\* for c in chunks[start:end]: sent = _first_sentences(c, max_chars=120);
\* if sent: subtopics.append(f"- {sent}")
RECURSIVE Subtopics(_, _, _)
Subtopics(cs, lo, hi) ==
    IF lo >= hi THEN <<>>
    ELSE LET sent == FirstSentences(cs[lo + 1], 120)
         IN  (IF sent # <<>> THEN <<Line("topic", lo, sent)>> ELSE <<>>)
                 \o Subtopics(cs, lo + 1, hi)

\* the chunks of a store as run-length encoded texts: words joined by single
\* spaces; two sentences of 51 and 100 characters, or one of 130
PlanChunkPool ==
    { <<<<"w", 50>>, <<".", 1>>, <<" ", 1>>, <<"w", 100>>>>, <<<<"w", 130>>>> }

InitPlan ==
    /\ IdleChunker /\ IdleSearch /\ IdleSummary /\ IdleQuiz /\ IdleApp
    /\ plan_chunks \in UNION {[1..m -> PlanChunkPool] : m \in 1..MaxPlanChunks}
    /\ today \in 0..1
    /\ exam_date \in
          [parses : {TRUE}, ordinal : -1..(MaxDays + 1)]
             \cup {[parses |-> FALSE, ordinal |-> 0]}
    /\ hours_per_day \in {2}
    /\ weak_topics \in {"", "paging"}
    /\ exam = 0 /\ days_left = 0 /\ per_day = 0 /\ idx = 0 /\ day = 0
    /\ plan_lines = <<>>
    /\ plan_pc = "call"

\* try: exam = fromisoformat(exam_date).date(); except: exam = today + 7;
\* days_left = max((exam - today).days, 1); if not chunks: return message;
\* per_day; the header lines; idx = 0
PlanSetup ==
    /\ plan_pc = "call"
    /\ exam' = IF exam_date.parses THEN exam_date.ordinal ELSE today + 7
    /\ days_left' = Max(exam' - today, 1)
    /\ IF plan_chunks = <<>>
       THEN /\ plan_lines' = <<Line("no_content", 0, <<>>)>>
            /\ per_day' = per_day
            /\ plan_pc' = "done"
       ELSE /\ per_day' = PerDay(Len(plan_chunks), days_left')
            /\ plan_lines' =
                  <<Line("header", days_left', <<>>)>>
                  \o (IF weak_topics # "" THEN <<Line("weak", 0, <<>>)>> ELSE <<>>)
                  \o <<Line("blank", 0, <<>>)>>
            /\ plan_pc' = "days"
    /\ idx' = 0
    /\ day' = 0
    /\ UNCHANGED <<plan_chunks, exam_date, hours_per_day, weak_topics, today>>
    /\ UNCHANGED <<chunkerVars, searchVars, summaryVars, quizVars, appVars>>

\* one iteration of: for d in range(days_left)
PlanDay ==
    /\ plan_pc = "days"
    /\ day < days_left
    /\ LET day_num == day + 1
           end == Min(idx + per_day, Len(plan_chunks))
           found == Subtopics(plan_chunks, idx, end)
           subtopics == IF found = <<>>
                        THEN <<Line("placeholder", 0, <<>>)>> ELSE found
       IN  /\ idx' = end
           /\ plan_lines' = plan_lines \o <<Line("day", day_num, <<>>)>>
                               \o subtopics \o <<Line("blank", 0, <<>>)>>
    /\ day' = day + 1
    /\ UNCHANGED <<plan_chunks, exam_date, hours_per_day, weak_topics, today,
                   exam, days_left, per_day, plan_pc>>
    /\ UNCHANGED <<chunkerVars, searchVars, summaryVars, quizVars, appVars>>

\* after the loop: the two closing lines; return "\n".join(lines)
PlanClose ==
    /\ plan_pc = "days"
    /\ day >= days_left
    /\ plan_lines' = plan_lines \o <<Line("closing_review", 0, <<>>),
                                      Line("closing_tip", 0, <<>>)>>
    /\ plan_pc' = "done"
    /\ UNCHANGED <<plan_chunks, exam_date, hours_per_day, weak_topics, today,
                   exam, days_left, per_day, idx, day>>
    /\ UNCHANGED <<chunkerVars, searchVars, summaryVars, quizVars, appVars>>

NextPlan == PlanSetup \/ PlanDay \/ PlanClose

SpecPlan == InitPlan /\ [][NextPlan]_vars

----------------------------------------------------------------------------
(* build_store_from_pdf *)

\* the loop of split_into_chunks run to its end
RECURSIVE ChunkLoop(_, _, _, _, _)
ChunkLoop(ws, cs, ov, s, acc) ==
    IF s < Len(ws)
    THEN LET end == WindowEnd(s, cs, Len(ws))
             more == Append(acc, Join(PySlice(ws, s, end)))
         IN  IF end = Len(ws) THEN more
             ELSE ChunkLoop(ws, cs, ov, NextStart(end, ov), more)
    ELSE acc

\* split_into_chunks(text, chunk_size, overlap)
SplitIntoChunks(t, cs, ov) ==
    IF Split(t) = <<>> THEN <<>> ELSE ChunkLoop(Split(t), cs, ov, 0, <<>>)

NoStore == [chunks |-> <<>>, raw_text |-> <<>>, vocabulary |-> {}]

\* a build that hands back a store whatever the chunks are
BuildStoreUnchecked(t) ==
    LET cs == SplitIntoChunks(t, DefaultChunkSize, DefaultOverlap)
    IN  [raised |-> "", index_built |-> TRUE,
         store |-> [chunks |-> cs, raw_text |-> t,
                    vocabulary |-> TfidfVocabulary(t)]]

\* build_store_from_pdf on a file whose extracted text is t: raises
\* ValueError when there are no chunks, before TfidfStore(chunks) is
\* constructed; the construction raises when the vocabulary is empty
BuildStoreFromPdf(t) ==
    LET cs == SplitIntoChunks(t, DefaultChunkSize, DefaultOverlap)
    IN  IF cs = <<>>
        THEN [raised |-> "no_text", index_built |-> FALSE, store |-> NoStore]
        ELSE IF TfidfVocabulary(t) = {}
        THEN [raised |-> "empty_vocabulary", index_built |-> FALSE, store |-> NoStore]
        ELSE [raised |-> "", index_built |-> TRUE,
              store |-> [chunks |-> cs, raw_text |-> t,
                         vocabulary |-> TfidfVocabulary(t)]]

----------------------------------------------------------------------------
(* app.py: one action per script run, named by the button that started it.  *)
(* st.session_state is a set of <<key, value>> entries.                     *)

\* st.session_state[key] = value
SetItem(sess, key, value) == {e \in sess : e[1] # key} \cup {<<key, value>>}

HasItem(sess, key) == \E e \in sess : e[1] = key

\* st.session_state.get(key, default)
GetItem(sess, key, default) ==
    IF HasItem(sess, key) THEN (CHOOSE e \in sess : e[1] = key)[2] ELSE default

\* the text field of the sidebar, the uploaded file's extracted text
KeyInputs == {<<>>, <<"k">>}
Uploads == UNION {[1..len -> {"a", "b", " "}] : len \in 0..MaxUploadLen}

\* a configure step that lets every run through
ConfigureNeverStops(api_key) == FALSE

\* configure_gemini: if not api_key: st.error(...); st.stop()
ConfigureStops(api_key) == api_key = <<>>

\* api_key = st.session_state.get("gemini_key", DEFAULT_API_KEY)
ApiKey(sess) == GetItem(sess, "gemini_key", default_api_key)

\* store = st.session_state.get("vector_store", None); if not store: st.stop()
StoreMissing(sess) == ~HasItem(sess, "vector_store")

\* the script from configure_gemini() to the tabs, for a run that did not
\* press Process Slides: the session as the sidebar left it, and what ran
RunLog(sess, button, derived) ==
    IF ConfigureStops(ApiKey(sess))
    THEN [NoRun EXCEPT !.button = button, !.stopped = "no_key"]
    ELSE IF StoreMissing(sess)
    THEN [NoRun EXCEPT !.button = button, !.api_key = ApiKey(sess),
                       !.stopped = "no_store"]
    ELSE [NoRun EXCEPT !.button = button, !.api_key = ApiKey(sess),
                       !.derived = derived]

InitApp ==
    /\ IdleChunker /\ IdleSearch /\ IdleSummary /\ IdleQuiz /\ IdlePlan
    /\ session = {}
    /\ default_api_key \in KeyInputs
    /\ run = NoRun

\* "Save key to session" pressed: the key is stored, then the script goes on
SaveKeyRun ==
    /\ \E api_key_input \in KeyInputs :
          /\ session' = SetItem(session, "gemini_key", api_key_input)
          /\ run' = RunLog(session', "save", "")
    /\ UNCHANGED default_api_key
    /\ UNCHANGED <<chunkerVars, searchVars, summaryVars, quizVars, planVars>>

\* "Process Slides" pressed, with or without an uploaded file.  An exception
\* of build_store_from_pdf ends the run before the session is assigned.
ProcessRun ==
    /\ \E uploaded \in BOOLEAN, upload \in Uploads :
          IF ConfigureStops(ApiKey(session))
          THEN /\ run' = [NoRun EXCEPT !.button = "process", !.stopped = "no_key"]
               /\ session' = session
          ELSE IF ~uploaded
          THEN /\ run' = [RunLog(session, "process", "") EXCEPT
                             !.ingestion = "warned_no_file"]
               /\ session' = session
          ELSE LET built == BuildStoreFromPdf(upload)
               IN  IF built.raised # ""
                   THEN /\ run' = [NoRun EXCEPT
                                     !.button = "process",
                                     !.api_key = ApiKey(session),
                                     !.stopped = "exception",
                                     !.ingestion = "failed",
                                     !.raised = built.raised,
                                     !.index_built = built.index_built,
                                     !.upload = upload]
                        /\ session' = session
                   ELSE /\ session' = SetItem(session, "vector_store", built.store)
                        /\ run' = [RunLog(session', "process", "") EXCEPT
                                      !.ingestion = "stored",
                                      !.index_built = built.index_built,
                                      !.upload = upload]
    /\ UNCHANGED default_api_key
    /\ UNCHANGED <<chunkerVars, searchVars, summaryVars, quizVars, planVars>>

\* "Get answer" pressed: answer_question runs unless the question is blank
AskRun ==
    /\ \E question \in {<<>>, <<" ">>, <<"a">>} :
          run' = RunLog(session, "qa",
                        IF Split(question) = <<>> THEN "" ELSE "answer_question")
    /\ UNCHANGED <<session, default_api_key>>
    /\ UNCHANGED <<chunkerVars, searchVars, summaryVars, quizVars, planVars>>

\* "Generate summary" pressed
SummaryRun ==
    /\ run' = RunLog(session, "summary", "summarize_lecture")
    /\ UNCHANGED <<session, default_api_key>>
    /\ UNCHANGED <<chunkerVars, searchVars, summaryVars, quizVars, planVars>>

\* "Generate quiz" pressed
QuizRun ==
    /\ run' = RunLog(session, "quiz", "generate_quiz")
    /\ UNCHANGED <<session, default_api_key>>
    /\ UNCHANGED <<chunkerVars, searchVars, summaryVars, quizVars, planVars>>

\* "Generate study plan" pressed
PlanRun ==
    /\ run' = RunLog(session, "plan", "generate_study_plan")
    /\ UNCHANGED <<session, default_api_key>>
    /\ UNCHANGED <<chunkerVars, searchVars, summaryVars, quizVars, planVars>>

\* a rerun that no button started (a widget changed)
WidgetRun ==
    /\ run' = RunLog(session, "", "")
    /\ UNCHANGED <<session, default_api_key>>
    /\ UNCHANGED <<chunkerVars, searchVars, summaryVars, quizVars, planVars>>

NextApp ==
    \/ SaveKeyRun \/ ProcessRun \/ AskRun \/ SummaryRun \/ QuizRun \/ PlanRun
    \/ WidgetRun

SpecApp == InitApp /\ [][NextApp]_vars

----------------------------------------------------------------------------
(* Claims about split_into_chunks *)

\* the precondition of split_into_chunks stated by the chunker contract
ValidConfig == chunk_size > 0 /\ 0 <= overlap /\ overlap < chunk_size

\* the words of chunk i that no earlier chunk carries
UniqueSpan(i) ==
    LET ws == Split(chunks[i])
    IN  IF i = 1 THEN ws ELSE SubSeq(ws, overlap + 1, Len(ws))

RECURSIVE ConcatSpans(_)
ConcatSpans(i) == IF i = 0 THEN <<>> ELSE ConcatSpans(i - 1) \o UniqueSpan(i)

\* C1: when a call with a valid configuration has returned, chunk 0 followed
\* by every later chunk without its first `overlap` words is exactly
\* text.split(); a text without words returns the empty list whatever the
\* configuration.
C1_Coverage ==
    pc = "done" =>
        /\ Split(text) = <<>> => chunks = <<>>
        /\ (ValidConfig /\ Split(text) # <<>>) =>
               /\ \A i \in 2..Len(chunks) : Len(Split(chunks[i])) >= overlap
               /\ ConcatSpans(Len(chunks)) = Split(text)

C1_Witness ==
    /\ pc = "done" /\ ValidConfig /\ overlap >= 1
    /\ Len(chunks) >= 3
    /\ \E i, j \in 1..Len(words) : words[i] # words[j]

\* C2: when a call with a valid configuration has returned, every chunk but
\* the last has exactly chunk_size words, the last has at most chunk_size,
\* and chunks i, i+1 share exactly `overlap` words: the window of chunk i+1
\* starts `overlap` positions before the end of the window of chunk i, and
\* the last `overlap` words of chunk i are the first `overlap` of chunk i+1.
C2_Overlap ==
    (pc = "done" /\ ValidConfig) =>
        /\ \A i \in 1..Len(chunks) : Len(Split(chunks[i])) <= chunk_size
        /\ \A i \in 1..(Len(chunks) - 1) :
              LET a == Split(chunks[i])
                  b == Split(chunks[i + 1])
              IN  /\ Len(a) = chunk_size
                  /\ Len(b) >= overlap
                  /\ spans[i][2] - spans[i + 1][1] = overlap
                  /\ spans[i + 1][1] > spans[i][1]
                  /\ SubSeq(a, Len(a) - overlap + 1, Len(a)) = SubSeq(b, 1, overlap)

C2_Witness ==
    /\ pc = "done" /\ ValidConfig /\ overlap >= 1
    /\ Len(chunks) >= 2
    /\ Len(Split(chunks[Len(chunks)])) < chunk_size

\* C9: in every call, whatever its configuration, a loop iteration that goes
\* round again has moved the window start forward: no call iterates without
\* progress (a call with an invalid configuration is rejected instead).
C9_Progress ==
    [][(pc = "loop" /\ pc' = "loop") => start' > start]_vars

----------------------------------------------------------------------------
(* Claims about similarity_search *)

\* the chunks ranked by descending score, equal scores by ascending index
StableRanking(v) ==
    CHOOSE p \in ArgsortOutcomes(v) :
        \A i, j \in 1..Len(v) : (i < j /\ v[p[i]] = v[p[j]]) => p[i] < p[j]

\* C3: a search with k >= 0 returns the first k chunks of the ranking by
\* descending score in which chunks of equal score keep their original order;
\* with all scores 0 these are the first k chunks of the store.
C3_Ordering ==
    (search_pc = "done" /\ k >= 0) =>
        /\ [j \in 1..Len(result) |-> result[j].index]
              = SubSeq(StableRanking(sims), 1, Min(k, Len(store_chunks)))
        /\ (\A i \in 1..Len(sims) : sims[i] = 0) =>
              [j \in 1..Len(result) |-> result[j].index]
                 = [j \in 1..Min(k, Len(store_chunks)) |-> j]

\* C4: a search returns at most min(k, m) results (none when that is
\* negative), the results are distinct chunks of the store, and k >= m
\* returns all m chunks.
C4_TopK ==
    search_pc = "done" =>
        LET m == Len(store_chunks)
        IN  /\ Len(result) <= Max(0, Min(k, m))
            /\ \A i, j \in 1..Len(result) :
                  i # j => result[i].index # result[j].index
            /\ \A i \in 1..Len(result) : result[i].index \in 1..m
            /\ k >= m => Len(result) = m

----------------------------------------------------------------------------
(* Claims about summarize_lecture *)

\* the sentences of a text: its non-empty pieces
RECURSIVE NonEmpty(_)
NonEmpty(ts) ==
    IF ts = <<>> THEN <<>>
    ELSE IF Head(ts) = <<>> THEN NonEmpty(Tail(ts))
    ELSE <<Head(ts)>> \o NonEmpty(Tail(ts))

SentencesOf(t) == NonEmpty(SentenceSplit(Strip(t)))

\* the bullets are the first sentences of the raw text, whole and in order
WholeSentences ==
    /\ Len(bullets) <= Len(SentencesOf(raw_text))
    /\ bullets = SubSeq(SentencesOf(raw_text), 1, Len(bullets))

\* C6: for short, medium and long the bullets are whole sentences of the raw
\* text, in order from its start, and the selected text (the sentences joined
\* by single spaces) is no longer than the budget.
C6_Budget ==
    (summary_pc = "done" /\ detail \in {"short", "medium", "long"}) =>
        /\ WholeSentences
        /\ TextLen(JoinTexts(bullets)) <= Budget(detail)

----------------------------------------------------------------------------
(* Claims about generate_quiz *)

\* the keywords of a token list: its tokens outside the stop set
KeywordSet(ts) == {ts[i] : i \in 1..Len(ts)} \ KeywordStop

FirstPos(ts, w) == CHOOSE i \in 1..Len(ts) :
                       ts[i] = w /\ \A j \in 1..(i - 1) : ts[j] # w

\* how many keywords are more frequent than w, or as frequent and seen earlier
KeywordRank(ts, w) ==
    Cardinality({v \in KeywordSet(ts) :
        \/ CountOf(ts, v) > CountOf(ts, w)
        \/ /\ CountOf(ts, v) = CountOf(ts, w)
           /\ FirstPos(ts, v) < FirstPos(ts, w)})

\* question n is about the keyword of rank n - 1, or the placeholder
\* "concept #n" when fewer than n keywords exist
QuestionsAsSpecified(ts) ==
    /\ Len(quiz.questions) = num_questions
    /\ \A n \in 1..num_questions :
          LET q == quiz.questions[n]
          IN  /\ q.num = n
              /\ IF n <= Cardinality(KeywordSet(ts))
                 THEN /\ q.placeholder = 0
                      /\ q.word \in KeywordSet(ts)
                      /\ KeywordRank(ts, q.word) = n - 1
                 ELSE q.placeholder = n

QuizTokens == FindAlphaRuns(Lower(quiz_text))

\* C8 as stated: every call on an existing store emits exactly num_questions
\* questions, about the ranked keywords or the placeholders, under a header
\* labelled with the difficulty.
C8_QuizAsStated ==
    quiz_pc = "done" =>
        /\ quiz.kind = "quiz"
        /\ quiz.label = difficulty
        /\ QuestionsAsSpecified(QuizTokens)

\* C8 amended: when the raw text has at least one keyword the call emits
\* exactly num_questions questions, about the ranked keywords or the
\* placeholders, under a header labelled with the difficulty; when it has
\* none the call emits no question, only the could-not-generate message.
C8_Quiz ==
    quiz_pc = "done" =>
        LET ts == QuizTokens
        IN  IF KeywordSet(ts) = {}
            THEN quiz.kind = "no_keywords" /\ quiz.questions = <<>>
            ELSE /\ quiz.kind = "quiz"
                 /\ quiz.label = difficulty
                 /\ QuestionsAsSpecified(ts)

C8_Witness ==
    /\ quiz_pc = "done" /\ quiz.kind = "quiz"
    /\ num_questions > Len(keywords)
    /\ Len(keywords) >= 2
    /\ CountOf(QuizTokens, keywords[1]) > CountOf(QuizTokens, keywords[2])
    /\ FirstPos(QuizTokens, keywords[1]) > FirstPos(QuizTokens, keywords[2])

----------------------------------------------------------------------------
(* Claims about generate_study_plan *)

\* the kind and number of each line, without its text
Shape(ls) == [i \in 1..Len(ls) |-> <<ls[i].kind, ls[i].num>>]

\* the section of day d: its heading, the chunks lo..hi-1 or the review
\* placeholder, and a blank line
RECURSIVE TopicShapes(_, _)
TopicShapes(lo, hi) ==
    IF lo >= hi THEN <<>> ELSE <<<<"topic", lo>>>> \o TopicShapes(lo + 1, hi)

DaySectionShape(d, pd, m) ==
    LET lo == (d - 1) * pd
        hi == Min(d * pd, m)
    IN  <<<<"day", d>>>>
          \o (IF lo >= hi THEN <<<<"placeholder", 0>>>> ELSE TopicShapes(lo, hi))
          \o <<<<"blank", 0>>>>

RECURSIVE DaySectionShapes(_, _, _)
DaySectionShapes(d, pd, m) ==
    IF d = 0 THEN <<>>
    ELSE DaySectionShapes(d - 1, pd, m) \o DaySectionShape(d, pd, m)

\* C7: with days_left = max(exam_date - today, 1), exam_date being today + 7
\* when it does not parse, and per_day = max(len(chunks) // days_left, 1),
\* the plan of a non-empty store is its header, then the sections of days
\* 1..days_left, day d listing the chunks (d-1)*per_day .. min(d*per_day,
\* len(chunks)) - 1 in order or the placeholder, then the two closing lines;
\* no chunk is listed twice and no chunk from days_left*per_day on is listed.
C7_Partition ==
    plan_pc = "done" =>
        LET m == Len(plan_chunks)
            dl == Max((IF exam_date.parses THEN exam_date.ordinal ELSE today + 7)
                          - today, 1)
            pd == Max(m \div dl, 1)
            header == <<<<"header", dl>>>>
                        \o (IF weak_topics # "" THEN <<<<"weak", 0>>>> ELSE <<>>)
                        \o <<<<"blank", 0>>>>
            topics == {i \in 1..Len(plan_lines) : plan_lines[i].kind = "topic"}
        IN  /\ Shape(plan_lines) = header \o DaySectionShapes(dl, pd, m)
                  \o <<<<"closing_review", 0>>, <<"closing_tip", 0>>>>
            /\ Cardinality({i \in 1..Len(plan_lines) : plan_lines[i].kind = "day"}) = dl
            /\ \A i, j \in topics :
                  i # j => plan_lines[i].num # plan_lines[j].num
            /\ \A i \in topics : plan_lines[i].num < Min(dl * pd, m)

C7_Witness ==
    /\ plan_pc = "done"
    /\ days_left >= 2
    /\ Len(plan_chunks) > days_left * per_day
    /\ per_day >= 1
    /\ \E i \in 1..Len(plan_lines) : plan_lines[i].kind = "topic"

----------------------------------------------------------------------------
(* Claims about the session *)

StoreEntries(sess) == {e \in sess : e[1] = "vector_store"}

\* a store as a successful ingestion of text t builds it
CompleteStore(st, t) ==
    /\ st.raw_text = t
    /\ st.chunks # <<>>
    /\ st.chunks = SplitIntoChunks(t, DefaultChunkSize, DefaultOverlap)
    /\ st.vocabulary # {}

\* C5: a Process Slides run that reaches build_store_from_pdf with a text of
\* no words raises before an index is built, runs nothing further and leaves
\* the vector_store slot as it was; the slot changes only in a run whose
\* ingestion succeeded, and then to the complete store of the uploaded text.
C5_FailedIngestion ==
    [][ /\ (run'.button = "process" /\ run'.ingestion \in {"failed", "stored"}
              /\ Split(run'.upload) = <<>>) =>
              /\ run'.ingestion = "failed"
              /\ run'.raised = "no_text"
              /\ ~run'.index_built
              /\ run'.stopped = "exception"
              /\ run'.derived = ""
        /\ run'.ingestion = "failed" =>
              StoreEntries(session') = StoreEntries(session)
        /\ StoreEntries(session') # StoreEntries(session) =>
              /\ run'.ingestion = "stored"
              /\ run'.index_built
              /\ \E e \in StoreEntries(session') :
                    /\ StoreEntries(session') = {e}
                    /\ CompleteStore(e[2], run'.upload)
      ]_vars

C5_Witness ==
    /\ run.ingestion = "failed"
    /\ run.raised = "no_text"
    /\ run.upload # <<>>
    /\ StoreEntries(session) # {}

\* C10: a derived operation runs only in a script run whose session holds a
\* store built from at least one chunk; ingestion and the derived operations
\* run only when the session or the environment gives a non-empty API key;
\* the session holds at most one store.
C10_SessionGuard ==
    /\ run.derived # "" =>
          \E e \in StoreEntries(session) : Len(e[2].chunks) >= 1
    /\ (run.derived # "" \/ run.ingestion \in {"failed", "stored"}) =>
          /\ run.api_key # <<>>
          /\ \/ run.api_key = GetItem(session, "gemini_key", <<>>)
             \/ run.api_key = default_api_key
    /\ Cardinality(StoreEntries(session)) <= 1

C10_Witness ==
    /\ run.derived = "generate_study_plan"
    /\ ~HasItem(session, "gemini_key")
    /\ Cardinality(StoreEntries(session)) = 1

====
